---- MODULE Spec2Model ----
(***************************************************************************)
(* Model of the geometry layer of PyFRAP (pyfrp_gmsh_geometry.py): the     *)
(* domain with its lists of vertices, edges (lines and arcs), line loops,  *)
(* ruled surfaces, surface loops and volumes, the ID management, the       *)
(* lookups, the shape constructors and the closed-loop validation.         *)
(*                                                                         *)
(* Objects are referred to the way Python refers to them, by identity:     *)
(*   - a vertex, an edge, a ruled surface and a surface loop by its        *)
(*     position (1-based) in the domain list that holds it (these lists    *)
(*     only grow);                                                         *)
(*   - a line loop by its position in loopObjs, the sequence of all line   *)
(*     loop objects ever constructed; domain.lineLoops is the sequence of  *)
(*     references the domain currently holds (a loop can be removed from   *)
(*     it while the object lives on).                                      *)
(* Coordinates are integer triples; volSize and the arc's derived angles   *)
(* do not influence any list or ID and are left out.                       *)
(***************************************************************************)
EXTENDS Integers, Sequences, FiniteSets, TLC

VARIABLES vertices, edges, lines, arcs, loopObjs, lineLoops, ruledSurfaces,
          surfaceLoops, volumes,
          calls, op, pre, ret, file

domVars == <<vertices, edges, lines, arcs, loopObjs, lineLoops, ruledSurfaces,
             surfaceLoops, volumes>>
vars == <<vertices, edges, lines, arcs, loopObjs, lineLoops, ruledSurfaces,
          surfaceLoops, volumes, calls, op, pre, ret, file>>

-----------------------------------------------------------------------------
(* Bounds of the model *)

\* explicit Ids handed to the add-methods are drawn from 1..MaxId
MaxId == 2
\* number of calls of the seven add-methods in a behaviour of Spec
MaxCalls == 4
\* number of calls of add-methods before the lookups of SpecIds and before the
\* shape of SpecShapes
MaxPriorCalls == 2
\* longest list of signed edge Ids handed to addLineLoop in SpecLoop
MaxLoopLen == 3
\* the largest number of calls that edit a line loop
MaxEdits == 2

-----------------------------------------------------------------------------
(* Python values *)

\* Id=None, the default of the add-methods: no Id requested
None == 0
\* Python's False; as an index it equals 0 (False == 0 in Python)
False == 0

\* a local name: F applied to the value v
With(v, F(_)) == F(v)

abs(n) == IF n < 0 THEN -n ELSE n

\* a sign that is never negative
signLost(n) == IF n = 0 THEN 0 ELSE 1

\* numpy.sign
sign(n) == IF n > 0 THEN 1 ELSE IF n < 0 THEN -1 ELSE 0

Range(s) == {s[i] : i \in 1..Len(s)}

\* Python's max() of a non-empty list
max(s) == CHOOSE m \in Range(s) : \A y \in Range(s) : y <= m

\* pyfrp_misc_module.modIdx(i,l): index i cycled through list l
modIdx(i, l) == i % Len(l)

\* pyfrp_misc_module.objAttrToList(listOfObjects,"Id")
objAttrToList(listOfObjects) ==
    [i \in 1..Len(listOfObjects) |-> listOfObjects[i].Id]

\* list.index(x): 1-based position of the first occurrence, 0 if there is none
RECURSIVE index(_, _, _)
index(l, x, i) ==
    IF i > Len(l) THEN 0
    ELSE IF l[i] = x THEN i
    ELSE index(l, x, i + 1)

\* list.remove(x): the list without the first occurrence of x
remove(l, x) ==
    LET k == index(l, x, 1)
    IN  IF k = 0 THEN l
        ELSE [i \in 1..(Len(l) - 1) |-> IF i < k THEN l[i] ELSE l[i + 1]]

\* flipCoordinate(x,destAxis,origAxis): numpy.roll by the distance of the axes
AxisIndex(a) == CASE a = "x" -> 23 [] a = "y" -> 24 [] a = "z" -> 25

flipCoordinate(x, destAxis, origAxis) ==
    LET axisDiff == abs(AxisIndex(destAxis) - AxisIndex(origAxis))
    IN  [i \in 1..3 |-> x[((i - 1 - axisDiff) % 3) + 1]]

-----------------------------------------------------------------------------
(* The domain as a value; every method maps a domain to the domain after   *)
(* the call (field d) and the value returned (field ret).                  *)

EmptyDomain ==
    [vertices |-> <<>>, edges |-> <<>>, lines |-> <<>>, arcs |-> <<>>,
     loopObjs |-> <<>>, lineLoops |-> <<>>, ruledSurfaces |-> <<>>,
     surfaceLoops |-> <<>>, volumes |-> <<>>]

Dom ==
    [vertices |-> vertices, edges |-> edges, lines |-> lines, arcs |-> arcs,
     loopObjs |-> loopObjs, lineLoops |-> lineLoops,
     ruledSurfaces |-> ruledSurfaces, surfaceLoops |-> surfaceLoops,
     volumes |-> volumes]

\* the line loop objects of domain.lineLoops, in list order
LoopList(D) == [i \in 1..Len(D.lineLoops) |-> D.loopObjs[D.lineLoops[i]]]

\* the objects of domain.lines and domain.arcs, in list order
LineList(D) == [i \in 1..Len(D.lines) |-> D.edges[D.lines[i]]]
ArcList(D) == [i \in 1..Len(D.arcs) |-> D.edges[D.arcs[i]]]

-----------------------------------------------------------------------------
(* ID management *)

checkIdExists(Id, objList) == Id \in Range(objAttrToList(objList))

\* incrementID by the length of the list instead of its largest Id
incrementIDByLength(objList) == Len(objList) + 1

incrementID(objList) ==
    IF Len(objList) = 0 THEN 1 ELSE max(objAttrToList(objList)) + 1

\* getNewId without the call of checkIdExists: a requested Id is taken as it is
getNewIdUnchecked(objList, Id) ==
    IF Id = None THEN incrementID(objList) ELSE Id

getNewId(objList, Id) ==
    IF Id = None THEN incrementID(objList)
    ELSE IF checkIdExists(Id, objList) THEN incrementID(objList)
    ELSE Id

-----------------------------------------------------------------------------
(* Lookups: "for i,e in enumerate(list): if e.Id==ID: return e,i" and      *)
(* "return False,False" after the loop.                                    *)

\* the loop of a lookup without the comparison of the Ids
scanAny(objList, ID, i) == IF i > Len(objList) THEN 0 ELSE i

\* 1-based position of the first object from position i on with the ID, 0 if none
RECURSIVE scanId(_, _, _)
scanId(objList, ID, i) ==
    IF i > Len(objList) THEN 0
    ELSE IF objList[i].Id = ID THEN i
    ELSE scanId(objList, ID, i + 1)

getVertexById(D, ID) ==
    LET k == scanId(D.vertices, ID, 1)
    IN  IF k = 0 THEN <<False, False>> ELSE <<k, k - 1>>

getEdgeById(D, ID) ==
    LET k == scanId(D.edges, ID, 1)
    IN  IF k = 0 THEN <<False, False>> ELSE <<k, k - 1>>

getLineLoopById(D, ID) ==
    LET k == scanId(LoopList(D), ID, 1)
    IN  IF k = 0 THEN <<False, False>> ELSE <<D.lineLoops[k], k - 1>>

getRuledSurfaceById(D, ID) ==
    LET k == scanId(D.ruledSurfaces, ID, 1)
    IN  IF k = 0 THEN <<False, False>> ELSE <<k, k - 1>>

getSurfaceLoopById(D, ID) ==
    LET k == scanId(D.surfaceLoops, ID, 1)
    IN  IF k = 0 THEN <<False, False>> ELSE <<k, k - 1>>

getVolumeById(D, ID) ==
    LET k == scanId(D.volumes, ID, 1)
    IN  IF k = 0 THEN <<False, False>> ELSE <<k, k - 1>>

-----------------------------------------------------------------------------
(* Edges: first and last vertex under an orientation *)

lineGetFirstVertex(e, orientation) ==
    IF orientation = 1 THEN e.v1
    ELSE IF orientation = -1 THEN e.v2
    ELSE None

lineGetLastVertex(e, orientation) ==
    IF orientation = 1 THEN e.v2
    ELSE IF orientation = -1 THEN e.v1
    ELSE None

arcGetFirstVertex(e, orientation) ==
    IF orientation = -1 THEN e.vend
    ELSE IF orientation = 1 THEN e.vstart
    ELSE None

arcGetLastVertex(e, orientation) ==
    IF orientation = 1 THEN e.vend
    ELSE IF orientation = -1 THEN e.vstart
    ELSE None

\* method dispatch on the class of the edge (typ 0 = line, 1 = arc)
getFirstVertex(D, e, orientation) ==
    IF D.edges[e].typ = 0 THEN lineGetFirstVertex(D.edges[e], orientation)
    ELSE arcGetFirstVertex(D.edges[e], orientation)

getLastVertex(D, e, orientation) ==
    IF D.edges[e].typ = 0 THEN lineGetLastVertex(D.edges[e], orientation)
    ELSE arcGetLastVertex(D.edges[e], orientation)

\* 1-based position of the first edge from i on that joins v1 and v2, 0 if none
RECURSIVE scanVertices(_, _, _, _)
scanVertices(D, v1, v2, i) ==
    IF i > Len(D.edges) THEN 0
    ELSE LET vs == {getFirstVertex(D, i, 1), getLastVertex(D, i, 1)}
         IN  IF v1 \in vs /\ v2 \in vs THEN i
             ELSE scanVertices(D, v1, v2, i + 1)

getEdgeByVertices(D, v1, v2) ==
    LET k == scanVertices(D, v1, v2, 1)
    IN  IF k = 0 THEN <<False, False>> ELSE <<k, k - 1>>

-----------------------------------------------------------------------------
(* Adding vertices and edges *)

addVertex(D, x, Id) ==
    LET newId == getNewId(D.vertices, Id)
        v == [Id |-> newId, x |-> x]
    IN  [d |-> [D EXCEPT !.vertices = Append(@, v)],
         ret |-> Len(D.vertices) + 1]

\* addLine with the vertices exchanged
addLineSwapped(D, v1, v2, Id) ==
    LET newId == getNewId(D.edges, Id)
        e == [Id |-> newId, typ |-> 0, v1 |-> v2, v2 |-> v1]
    IN  [d |-> [D EXCEPT !.lines = Append(@, Len(D.edges) + 1),
                         !.edges = Append(@, e)],
         ret |-> Len(D.edges) + 1]

addLine(D, v1, v2, Id) ==
    LET newId == getNewId(D.edges, Id)
        e == [Id |-> newId, typ |-> 0, v1 |-> v1, v2 |-> v2]
    IN  [d |-> [D EXCEPT !.lines = Append(@, Len(D.edges) + 1),
                         !.edges = Append(@, e)],
         ret |-> Len(D.edges) + 1]

addArc(D, vstart, vcenter, vend, Id) ==
    LET newId == getNewId(D.edges, Id)
        a == [Id |-> newId, typ |-> 1, vstart |-> vstart, vcenter |-> vcenter,
              vend |-> vend]
    IN  [d |-> [D EXCEPT !.arcs = Append(@, Len(D.edges) + 1),
                         !.edges = Append(@, a)],
         ret |-> Len(D.edges) + 1]

-----------------------------------------------------------------------------
(* Line loops: an object [Id, edges, orientations]; edges holds references  *)
(* to edges of the domain (False where the lookup failed).                  *)

\* lineLoop.initEdges: addEdgeByID for every signed ID, in order
initEdges(D, IDs) ==
    [edges |-> [k \in 1..Len(IDs) |-> getEdgeById(D, abs(IDs[k]))[1]],
     orientations |-> [k \in 1..Len(IDs) |-> sign(IDs[k])]]

addLineLoop(D, Id, edgeIDs) ==
    LET newId == getNewId(LoopList(D), Id)
        init == initEdges(D, edgeIDs)
        l == [Id |-> newId, edges |-> init.edges,
              orientations |-> init.orientations]
    IN  [d |-> [D EXCEPT !.loopObjs = Append(@, l),
                         !.lineLoops = Append(@, Len(D.loopObjs) + 1)],
         ret |-> Len(D.loopObjs) + 1]

\* lineLoop.getVertices: the first vertex of every edge in its orientation
getVertices(D, l) ==
    [i \in 1..Len(D.loopObjs[l].edges) |->
        getFirstVertex(D, D.loopObjs[l].edges[i], D.loopObjs[l].orientations[i])]

\* lineLoop.reverseEdge on the lists of a loop: the orientations afterwards
reverseEdge(D, loopEdges, orientations, ID) ==
    LET e == getEdgeById(D, abs(ID))[1]
        k == index(loopEdges, e, 1)
    IN  [orientations EXCEPT ![k] = -orientations[k]]

\* the body of the for loop of lineLoop.checkClosed from position i (1-based) on;
\* o are the orientations and b the result so far
RECURSIVE checkClosedFrom(_, _, _, _, _, _)
checkClosedFrom(D, loopEdges, o, b, fix, i) ==
    IF i > Len(loopEdges) THEN [orientations |-> o, b |-> b]
    ELSE LET edge1Temp == loopEdges[i]
             orient1 == o[i]
             nxt == modIdx(i, loopEdges) + 1
             edge2Temp == loopEdges[nxt]
             orient2 == o[nxt]
             firstVertexId == D.vertices[getFirstVertex(D, edge1Temp, orient1)].Id
             lastVertexId == D.vertices[getLastVertex(D, edge2Temp, orient2)].Id
         IN  IF firstVertexId # lastVertexId
             THEN IF fix
                  THEN checkClosedFrom(D, loopEdges,
                           reverseEdge(D, loopEdges, o, D.edges[edge2Temp].Id),
                           TRUE, fix, i + 1)
                  ELSE checkClosedFrom(D, loopEdges, o, FALSE, fix, i + 1)
             ELSE checkClosedFrom(D, loopEdges, o, b, fix, i + 1)

\* lineLoop.checkClosed(fix) of the loop object l
checkClosed(D, l, fix) ==
    LET r == checkClosedFrom(D, D.loopObjs[l].edges, D.loopObjs[l].orientations,
                             TRUE, fix, 1)
    IN  [d |-> [D EXCEPT !.loopObjs[l].orientations = r.orientations],
         ret |-> r.b]

\* checkClosed raises when an entry of edges is False or an orientation is 0
checkClosedRaises(D, l) ==
    \E i \in 1..Len(D.loopObjs[l].edges) :
        \/ D.loopObjs[l].edges[i] = False
        \/ D.loopObjs[l].orientations[i] \notin {1, -1}

\* Python's list.insert(pos,x): before position pos (0-based); a negative pos
\* counts from the end, and a pos outside the list inserts at its nearer end
insert(l, pos, x) ==
    LET p == IF pos < 0 THEN (IF pos + Len(l) < 0 THEN 0 ELSE pos + Len(l))
             ELSE IF pos > Len(l) THEN Len(l) ELSE pos
    IN  [i \in 1..(Len(l) + 1) |->
            IF i <= p THEN l[i] ELSE IF i = p + 1 THEN x ELSE l[i - 1]]

\* Python's list.pop(idx) as far as the list goes: the list without the entry
\* at (1-based) position k
pop(l, k) == [i \in 1..(Len(l) - 1) |-> IF i < k THEN l[i] ELSE l[i + 1]]

\* list.index(n) for a number n in a list of objects, as 1-based position, 0
\* if there is none: the classes define no __eq__, so an object equals no
\* number; False equals the number 0
RECURSIVE indexOfNumber(_, _, _)
indexOfNumber(l, n, i) ==
    IF i > Len(l) THEN 0
    ELSE IF l[i] = False /\ n = 0 THEN i
    ELSE indexOfNumber(l, n, i + 1)

\* The methods that edit the loop object l: field d is the domain afterwards,
\* ret.raised tells that the call raised ValueError (and changed nothing),
\* ret.value is what it returned otherwise.

\* lineLoop.addEdgeByID
addEdgeByID(D, l, ID) ==
    With([D EXCEPT !.loopObjs[l].edges = Append(@, getEdgeById(D, abs(ID))[1]),
                   !.loopObjs[l].orientations = Append(@, sign(ID))],
         LAMBDA d : [d |-> d, ret |-> [raised |-> FALSE,
                                       value |-> d.loopObjs[l].edges]])

\* insertEdgeByID that leaves the orientations alone
insertEdgeOnly(D, l, ID, pos) ==
    With([D EXCEPT !.loopObjs[l].edges =
                       insert(@, pos, getEdgeById(D, abs(ID))[1])],
         LAMBDA d : [d |-> d, ret |-> [raised |-> FALSE,
                                       value |-> d.loopObjs[l].edges]])

\* lineLoop.insertEdgeByID
insertEdgeByID(D, l, ID, pos) ==
    With([D EXCEPT !.loopObjs[l].edges =
                       insert(@, pos, getEdgeById(D, abs(ID))[1]),
                   !.loopObjs[l].orientations = insert(@, pos, sign(ID))],
         LAMBDA d : [d |-> d, ret |-> [raised |-> FALSE,
                                       value |-> d.loopObjs[l].edges]])

\* lineLoop.removeEdgeByID: self.edges.index(abs(ID)) looks for the number
\* abs(ID) in the list of edge objects
removeEdgeByID(D, l, ID) ==
    With(indexOfNumber(D.loopObjs[l].edges, abs(ID), 1), LAMBDA idx :
        IF idx = 0
        THEN [d |-> D, ret |-> [raised |-> TRUE, value |-> None]]
        ELSE With([D EXCEPT !.loopObjs[l].edges = pop(@, idx),
                            !.loopObjs[l].orientations = pop(@, idx)],
                  LAMBDA d : [d |-> d, ret |-> [raised |-> FALSE,
                                                value |-> d.loopObjs[l].edges]]))

\* lineLoop.reverseEdge as a call: self.edges.index(e) raises if the edge is
\* not in the loop
lineLoopReverseEdge(D, l, ID) ==
    IF index(D.loopObjs[l].edges, getEdgeById(D, abs(ID))[1], 1) = 0
    THEN [d |-> D, ret |-> [raised |-> TRUE, value |-> None]]
    ELSE With(reverseEdge(D, D.loopObjs[l].edges, D.loopObjs[l].orientations, ID),
              LAMBDA o : [d |-> [D EXCEPT !.loopObjs[l].orientations = o],
                          ret |-> [raised |-> FALSE, value |-> o]])

-----------------------------------------------------------------------------
(* Ruled surfaces and the triangulation of loops with more than 4 edges *)

RECURSIVE Sum(_, _)
Sum(f, m) == IF m = 0 THEN 0 ELSE f[m] + Sum(f, m - 1)

\* ruledSurface.getNormal: the vector n of the method before it is divided by sum(n)
getNormal(D, l) ==
    LET vs == getVertices(D, l)
        m == Len(vs)
        v(i) == D.vertices[vs[i]].x
        v2(i) == D.vertices[vs[(i % m) + 1]].x
    IN  << Sum([i \in 1..m |-> (v(i)[2] - v2(i)[2]) * (v(i)[3] + v2(i)[3])], m),
           Sum([i \in 1..m |-> (v(i)[3] - v2(i)[3]) * (v(i)[1] - v2(i)[1])], m),
           Sum([i \in 1..m |-> (v(i)[1] - v2(i)[1]) * (v(i)[2] - v2(i)[2])], m) >>

\* component k of the normalised vector [i/sum(n) for i in n] equals 1
IsOne(n, k) == (n[1] + n[2] + n[3]) # 0 /\ n[k] = n[1] + n[2] + n[3]

\* ruledSurface.normalToPlane: "1. in self.normal"
normalToPlane(n) == \E k \in 1..3 : IsOne(n, k)

\* np.asarray(coords)[:,np.where(self.normal!=1)[0]]
CoordsPlane(D, vs, n) ==
    LET cols == {k \in 1..3 : ~IsOne(n, k)}
        col(j) == CHOOSE k \in cols : Cardinality({c \in cols : c < k}) = j - 1
    IN  [i \in 1..Len(vs) |->
            [j \in 1..Cardinality(cols) |-> D.vertices[vs[i]].x[col(j)]]]

\* pyfrp_idx_module.triangulatePoly: the triangles of a polygon as triples of
\* (0-based) indices of its corners; a fan around corner tp
triangulatePoly(coordsPlane, tp) ==
    LET m == Len(coordsPlane)
    IN  [k \in 1..(m - 2) |-> <<tp % m, (tp + k) % m, (tp + k + 1) % m>>]

\* the Ids of the edges with the given references
EdgeIds(D, refs) == [k \in 1..Len(refs) |-> D.edges[refs[k]].Id]

\* the inner loop of initLineLoop over the corners of triangle t: the edges of
\* the triangle, found in the domain or added to it; st holds the domain d and
\* the list edges (ret) so far
RECURSIVE triEdges(_, _, _)
triEdges(st, vs, t) ==
    LET j == Len(st.ret) + 1
    IN  IF j > Len(t) THEN st
        ELSE LET v1 == vs[t[j] + 1]
                 v2 == vs[t[modIdx(j, t) + 1] + 1]
             IN  With(IF getEdgeByVertices(st.d, v1, v2)[1] = False
                      THEN addLine(st.d, v1, v2, None)
                      ELSE [d |-> st.d, ret |-> getEdgeByVertices(st.d, v1, v2)[1]],
                      LAMBDA r :
                 triEdges([d |-> r.d, ret |-> Append(st.ret, r.ret)], vs, t))

RECURSIVE addRuledSurface(_, _, _, _)

\* the loop of initLineLoop over the triangles; st holds the variables of the
\* loop: the domain d, self.lineLoop, and the (1-based) index i of the triangle
\* that is next
RECURSIVE triangulate(_, _, _, _, _)
triangulate(st, selfId, vs, tri, tp) ==
    IF st.i > Len(tri) THEN st
    ELSE With(triEdges([d |-> st.d, ret |-> <<>>], vs, tri[st.i]), LAMBDA es :
         With(addLineLoop(es.d, None, EdgeIds(es.d, es.ret)), LAMBDA loop :
         With(checkClosed(loop.d, loop.ret, TRUE), LAMBDA cc :
             triangulate(
                 [d |-> IF st.i = 1 THEN cc.d
                        ELSE addRuledSurface(cc.d, selfId + (st.i - 1),
                                             cc.d.loopObjs[loop.ret].Id, tp).d,
                  lineLoop |-> IF st.i = 1 THEN loop.ret ELSE st.lineLoop,
                  i |-> st.i + 1],
                 selfId, vs, tri, tp))))

\* ruledSurface.initLineLoop of the surface with Id selfId (not yet in
\* domain.ruledSurfaces); field lineLoop is self.lineLoop afterwards
initLineLoop(D, selfId, loopID, tp) ==
    LET l == getLineLoopById(D, loopID)[1]
    IN  IF Len(D.loopObjs[l].edges) <= 4
        THEN [d |-> D, lineLoop |-> l, ret |-> FALSE]
        ELSE IF ~normalToPlane(getNormal(D, l))
        THEN [d |-> D, lineLoop |-> l, ret |-> FALSE]
        ELSE With(triangulate(
                      [d |-> D, lineLoop |-> l, i |-> 1], selfId,
                      getVertices(D, l),
                      triangulatePoly(
                          CoordsPlane(D, getVertices(D, l), getNormal(D, l)), tp),
                      tp),
                  LAMBDA t :
             [d |-> [t.d EXCEPT !.lineLoops =
                        remove(@, getLineLoopById(t.d, loopID)[1])],
              lineLoop |-> t.lineLoop, ret |-> TRUE])

addRuledSurface(D, Id, lineLoopID, tp) ==
    With(getNewId(D.ruledSurfaces, Id), LAMBDA newId :
    With(initLineLoop(D, newId, lineLoopID, tp), LAMBDA init :
        [d |-> [init.d EXCEPT !.ruledSurfaces =
                   Append(@, [Id |-> newId, lineLoop |-> init.lineLoop])],
         ret |-> Len(init.d.ruledSurfaces) + 1]))

\* addRuledSurface raises before it changes anything: the loop does not exist
\* (False has no attribute edges), or getVertices meets a False edge
addRuledSurfaceRaises(D, lineLoopID) ==
    LET l == getLineLoopById(D, lineLoopID)[1]
    IN  \/ l = False
        \/ (Len(D.loopObjs[l].edges) > 4 /\ checkClosedRaises(D, l))

-----------------------------------------------------------------------------
(* Surface loops and volumes *)

\* initSurfaces that takes every surface of the domain
initSurfacesAll(D, IDs) == [k \in 1..Len(D.ruledSurfaces) |-> k]

\* surfaceLoop.initSurfaces: addSurfaceByID for every ID, in order
initSurfaces(D, IDs) ==
    [k \in 1..Len(IDs) |-> getRuledSurfaceById(D, IDs[k])[1]]

addSurfaceLoop(D, Id, surfaceIDs) ==
    LET newId == getNewId(D.surfaceLoops, Id)
        l == [Id |-> newId, surfaces |-> initSurfaces(D, surfaceIDs)]
    IN  [d |-> [D EXCEPT !.surfaceLoops = Append(@, l)],
         ret |-> Len(D.surfaceLoops) + 1]

addVolume(D, Id, surfaceLoopID) ==
    LET newId == getNewId(D.volumes, Id)
        l == [Id |-> newId,
              surfaceLoop |-> getSurfaceLoopById(D, surfaceLoopID)[1]]
    IN  [d |-> [D EXCEPT !.volumes = Append(@, l)],
         ret |-> Len(D.volumes) + 1]

-----------------------------------------------------------------------------
(* The largest ID. Field raised tells that the call raised ValueError       *)
(* (max() of an empty list), field value is what it returned otherwise.     *)

\* the objects of the list self.<element>
ElementObjects(D, element) ==
    CASE element = "vertices" -> D.vertices
      [] element = "lines" -> LineList(D)
      [] element = "arcs" -> ArcList(D)
      [] element = "lineLoops" -> LoopList(D)
      [] element = "ruledSurfaces" -> D.ruledSurfaces
      [] element = "surfaceLoops" -> D.surfaceLoops
      [] element = "volumes" -> D.volumes

\* domain.getMaxID
getMaxID(D, element) ==
    With(objAttrToList(ElementObjects(D, element)), LAMBDA IDs :
        IF IDs = <<>> THEN [raised |-> TRUE, value |-> None]
        ELSE [raised |-> FALSE, value |-> max(IDs)])

\* the list of the elements getAllMaxID asks for, in its order
AllElements ==
    <<"vertices", "lines", "arcs", "lineLoops", "ruledSurfaces", "surfaceLoops",
      "volumes">>

\* domain.getAllMaxID: the first getMaxID that raises ends the call
getAllMaxID(D) ==
    IF \E i \in 1..Len(AllElements) : getMaxID(D, AllElements[i]).raised
    THEN [raised |-> TRUE, value |-> None]
    ELSE [raised |-> FALSE,
          value |-> max([i \in 1..Len(AllElements) |->
                            getMaxID(D, AllElements[i]).value])]

-----------------------------------------------------------------------------
(* Writing the domain to a file. The text of the file is a sequence of      *)
(* tokens: Txt(s) is the text s, Num(n) the text str(n) of a number.        *)

Txt(s) == [s |-> s, n |-> 0]
Num(n) == [s |-> "", n |-> n]

\* the loop "for i,s in enumerate(...)" of lineLoop.writeToFile and
\* surfaceLoop.writeToFile over the numbers nums: each number, then "," or,
\* after the last one, "};\n"
writeItems(f, nums) ==
    f \o [j \in 1..(2 * Len(nums)) |->
             IF j % 2 = 1 THEN Num(nums[(j + 1) \div 2])
             ELSE IF j \div 2 # Len(nums) THEN Txt(",") ELSE Txt("};\n")]

vertexWriteToFile(D, v, f) ==
    f \o <<Txt("Point("), Num(D.vertices[v].Id), Txt(")= {"),
           Num(D.vertices[v].x[1]), Txt(","), Num(D.vertices[v].x[2]), Txt(","),
           Num(D.vertices[v].x[3]), Txt(","), Txt("None"), Txt("};\n")>>

lineWriteToFile(D, e, f) ==
    f \o <<Txt("Line("), Num(D.edges[e].Id), Txt(")= {"),
           Num(D.vertices[D.edges[e].v1].Id), Txt(","),
           Num(D.vertices[D.edges[e].v2].Id), Txt("};\n")>>

arcWriteToFile(D, e, f) ==
    f \o <<Txt("Circle("), Num(D.edges[e].Id), Txt(")= {"),
           Num(D.vertices[D.edges[e].vstart].Id), Txt(","),
           Num(D.vertices[D.edges[e].vcenter].Id), Txt(","),
           Num(D.vertices[D.edges[e].vend].Id), Txt("};\n")>>

lineLoopWriteToFile(D, l, f) ==
    writeItems(f \o <<Txt("Line Loop("), Num(D.loopObjs[l].Id), Txt(")= {")>>,
               [i \in 1..Len(D.loopObjs[l].edges) |->
                   D.loopObjs[l].orientations[i] * D.edges[D.loopObjs[l].edges[i]].Id])

ruledSurfaceWriteToFile(D, s, f) ==
    f \o <<Txt("Ruled Surface("), Num(D.ruledSurfaces[s].Id), Txt(")= {"),
           Num(D.loopObjs[D.ruledSurfaces[s].lineLoop].Id), Txt("};\n")>>

surfaceLoopWriteToFile(D, l, f) ==
    writeItems(f \o <<Txt("Surface Loop("), Num(D.surfaceLoops[l].Id), Txt(")= {")>>,
               [i \in 1..Len(D.surfaceLoops[l].surfaces) |->
                   D.ruledSurfaces[D.surfaceLoops[l].surfaces[i]].Id])

volumeWriteToFile(D, v, f) ==
    f \o <<Txt("Volume("), Num(D.volumes[v].Id), Txt(")= {"),
           Num(D.surfaceLoops[D.volumes[v].surfaceLoop].Id), Txt("};\n")>>

\* getattr(self,element): the references the list holds, in its order
getattr(D, element) ==
    CASE element = "vertices" -> [k \in 1..Len(D.vertices) |-> k]
      [] element = "lines" -> D.lines
      [] element = "arcs" -> D.arcs
      [] element = "lineLoops" -> D.lineLoops
      [] element = "ruledSurfaces" -> [k \in 1..Len(D.ruledSurfaces) |-> k]
      [] element = "surfaceLoops" -> [k \in 1..Len(D.surfaceLoops) |-> k]
      [] element = "volumes" -> [k \in 1..Len(D.volumes) |-> k]

\* v.writeToFile(f) of the object v of a list of the domain
entityWriteToFile(D, element, v, f) ==
    CASE element = "vertices" -> vertexWriteToFile(D, v, f)
      [] element = "lines" -> lineWriteToFile(D, v, f)
      [] element = "arcs" -> arcWriteToFile(D, v, f)
      [] element = "lineLoops" -> lineLoopWriteToFile(D, v, f)
      [] element = "ruledSurfaces" -> ruledSurfaceWriteToFile(D, v, f)
      [] element = "surfaceLoops" -> surfaceLoopWriteToFile(D, v, f)
      [] element = "volumes" -> volumeWriteToFile(D, v, f)

\* pyfrp_gmsh_IO_module.writeComment: a comment line
writeComment(f, comment) == f \o <<Txt("//"), Txt(comment), Txt("\n")>>

\* the for loop of writeElements from position i of the list on: what it
\* appends to the file
RECURSIVE writeEntities(_, _, _)
writeEntities(D, element, i) ==
    IF i > Len(getattr(D, element)) THEN <<>>
    ELSE entityWriteToFile(D, element, getattr(D, element)[i], <<>>)
         \o writeEntities(D, element, i + 1)

writeElements(D, element, f) ==
    writeComment(f, element) \o writeEntities(D, element, 1) \o <<Txt("\n")>>

\* domain.writeToFile: the text of the file afterwards
writeToFile(D) ==
    writeElements(D, "volumes",
    writeElements(D, "surfaceLoops",
    writeElements(D, "ruledSurfaces",
    writeElements(D, "lineLoops",
    writeElements(D, "arcs",
    writeElements(D, "lines",
    writeElements(D, "vertices", <<>>)))))))

\* writeToFile raises: an object refers to False (a lookup that failed)
\* where the writer takes its Id
writeToFileRaises(D) ==
    \/ \E k \in 1..Len(D.lineLoops) :
           \E i \in 1..Len(D.loopObjs[D.lineLoops[k]].edges) :
               D.loopObjs[D.lineLoops[k]].edges[i] = False
    \/ \E k \in 1..Len(D.surfaceLoops) :
           \E i \in 1..Len(D.surfaceLoops[k].surfaces) :
               D.surfaceLoops[k].surfaces[i] = False
    \/ \E k \in 1..Len(D.volumes) : D.volumes[k].surfaceLoop = False

-----------------------------------------------------------------------------
(* Shapes *)

addCircleByParameters(D, center, radius, z, plane) ==
    LET xcenter == flipCoordinate(<<center[1], center[2], z>>, plane, "z")
        x1 == flipCoordinate(<<center[1] + radius, center[2], z>>, plane, "z")
        x2 == flipCoordinate(<<center[1], center[2] + radius, z>>, plane, "z")
        x3 == flipCoordinate(<<center[1] - radius, center[2], z>>, plane, "z")
        x4 == flipCoordinate(<<center[1], center[2] - radius, z>>, plane, "z")
        vcenter == addVertex(D, xcenter, None)
        v1 == addVertex(vcenter.d, x1, None)
        v2 == addVertex(v1.d, x2, None)
        v3 == addVertex(v2.d, x3, None)
        v4 == addVertex(v3.d, x4, None)
        a1 == addArc(v4.d, v1.ret, vcenter.ret, v2.ret, None)
        a2 == addArc(a1.d, v2.ret, vcenter.ret, v3.ret, None)
        a3 == addArc(a2.d, v3.ret, vcenter.ret, v4.ret, None)
        a4 == addArc(a3.d, v4.ret, vcenter.ret, v1.ret, None)
    IN  [d |-> a4.d,
         ret |-> << <<vcenter.ret, v1.ret, v2.ret, v3.ret, v4.ret>>,
                    <<a1.ret, a2.ret, a3.ret, a4.ret>> >>]

\* "for x in xs: vertices.append(self.addVertex(x,volSize=volSize))"; st holds
\* the domain d and the list vertices (ret) so far
RECURSIVE addVertices(_, _)
addVertices(st, xs) ==
    LET i == Len(st.ret) + 1
    IN  IF i > Len(xs) THEN st
        ELSE With(addVertex(st.d, xs[i], None), LAMBDA r :
                 addVertices([d |-> r.d, ret |-> Append(st.ret, r.ret)], xs))

\* "for i in range(len(vertices)): lines.append(self.addLine(vertices[i],
\* vertices[modIdx(i+1,vertices)]))"; st holds the domain and the list lines
RECURSIVE addPolygonLines(_, _)
addPolygonLines(st, vs) ==
    LET i == Len(st.ret) + 1
    IN  IF i > Len(vs) THEN st
        ELSE With(addLine(st.d, vs[i], vs[modIdx(i, vs) + 1], None), LAMBDA r :
                 addPolygonLines([d |-> r.d, ret |-> Append(st.ret, r.ret)], vs))

addPolygonByParameters(D, coords, z, plane) ==
    LET xs == [i \in 1..Len(coords) |->
                  IF Len(coords[i]) = 3
                  THEN flipCoordinate(<<coords[i][1], coords[i][2], coords[i][3]>>,
                                      plane, "z")
                  ELSE flipCoordinate(<<coords[i][1], coords[i][2], z>>, plane, "z")]
    IN  With(addVertices([d |-> D, ret |-> <<>>], xs), LAMBDA vs :
        With(addPolygonLines([d |-> vs.d, ret |-> <<>>], vs.ret), LAMBDA ls :
            [d |-> ls.d, ret |-> <<vs.ret, ls.ret>>]))

\* "for i in range(len(vertices1)): lines3.append(self.addLine(vertices1[i],
\* vertices2[i]))"; st holds the domain and the list lines3
RECURSIVE addConnectingLines(_, _, _)
addConnectingLines(st, vertices1, vertices2) ==
    LET i == Len(st.ret) + 1
    IN  IF i > Len(vertices1) THEN st
        ELSE With(addLine(st.d, vertices1[i], vertices2[i], None), LAMBDA r :
                 addConnectingLines([d |-> r.d, ret |-> Append(st.ret, r.ret)],
                                    vertices1, vertices2))

\* the loops of the side faces of the prism; st holds the domain and the list
\* loops, which starts with the loops of the two polygons
RECURSIVE addSideLoops(_, _, _, _)
addSideLoops(st, lines1, lines2, lines3) ==
    LET i == Len(st.ret) - 1
    IN  IF i > Len(lines1) THEN st
        ELSE With(addLineLoop(st.d, None,
                      << -st.d.edges[lines1[i]].Id, st.d.edges[lines3[i]].Id,
                         st.d.edges[lines2[i]].Id,
                         -st.d.edges[lines3[modIdx(i, lines1) + 1]].Id >>),
                  LAMBDA r :
                 addSideLoops([d |-> r.d, ret |-> Append(st.ret, r.ret)],
                              lines1, lines2, lines3))

\* "for loop in loops: surfaces.append(self.addRuledSurface(lineLoopID=loop.Id))";
\* st holds the domain and the list surfaces
RECURSIVE addSurfaces(_, _, _)
addSurfaces(st, loops, tp) ==
    LET i == Len(st.ret) + 1
    IN  IF i > Len(loops) THEN st
        ELSE With(addRuledSurface(st.d, None, st.d.loopObjs[loops[i]].Id, tp),
                  LAMBDA r :
                 addSurfaces([d |-> r.d, ret |-> Append(st.ret, r.ret)], loops, tp))

\* s[:len(s)/2] and s[len(s)/2:]
FirstHalf(s) == SubSeq(s, 1, Len(s) \div 2)
SecondHalf(s) == SubSeq(s, (Len(s) \div 2) + 1, Len(s))

\* addPrismByParameters; the plane argument is not used by the method. Field
\* none of ret tells that the method returned None (odd number of 3D coordinates).
addPrismByParameters(D, coords, height, z, genLoops, genSurfaces, genVol, tp) ==
    IF Len(coords[1]) = 3 /\ Len(coords) % 2 # 0
    THEN [d |-> D, ret |-> [none |-> TRUE]]
    ELSE
    \* the upper and the lower polygon
    With(IF Len(coords[1]) = 3
         THEN With(addPolygonByParameters(D, coords, 0, "z"), LAMBDA poly :
                  [d |-> poly.d,
                   vertices1 |-> FirstHalf(poly.ret[1]),
                   vertices2 |-> SecondHalf(poly.ret[1]),
                   lines1 |-> FirstHalf(poly.ret[2]),
                   lines2 |-> SecondHalf(poly.ret[2])])
         ELSE With(addPolygonByParameters(D, coords, z, "z"), LAMBDA poly1 :
              With(addPolygonByParameters(poly1.d, coords, z + height, "z"),
                   LAMBDA poly2 :
                  [d |-> poly2.d,
                   vertices1 |-> poly1.ret[1], vertices2 |-> poly2.ret[1],
                   lines1 |-> poly1.ret[2], lines2 |-> poly2.ret[2]])),
         LAMBDA p :
    With(addConnectingLines([d |-> p.d, ret |-> <<>>], p.vertices1, p.vertices2),
         LAMBDA lines3 :
    With(IF genLoops
         THEN With(addLineLoop(lines3.d, None, EdgeIds(lines3.d, p.lines1)),
                   LAMBDA lp1 :
              With(addLineLoop(lp1.d, None, EdgeIds(lp1.d, p.lines2)),
                   LAMBDA lp2 :
                  addSideLoops([d |-> lp2.d, ret |-> <<lp1.ret, lp2.ret>>],
                               p.lines1, p.lines2, lines3.ret)))
         ELSE [d |-> lines3.d, ret |-> <<>>],
         LAMBDA loops :
    With(IF genSurfaces
         THEN addSurfaces([d |-> loops.d, ret |-> <<>>], loops.ret, tp)
         ELSE [d |-> loops.d, ret |-> <<>>],
         LAMBDA surfaces :
    With(IF genVol
         THEN With(addSurfaceLoop(surfaces.d, None,
                                  objAttrToList(surfaces.d.ruledSurfaces)),
                   LAMBDA surfaceLoop :
              With(addVolume(surfaceLoop.d, None,
                             surfaceLoop.d.surfaceLoops[surfaceLoop.ret].Id),
                   LAMBDA vol :
                  [d |-> vol.d, surfaceLoop |-> surfaceLoop.ret, vol |-> vol.ret]))
         ELSE [d |-> surfaces.d, surfaceLoop |-> None, vol |-> None],
         LAMBDA v :
        [d |-> v.d,
         ret |-> [none |-> FALSE,
                  vertices |-> <<p.vertices1, p.vertices2>>,
                  lines |-> <<p.lines1, p.lines2, lines3.ret>>,
                  loops |-> loops.ret,
                  surfaces |-> surfaces.ret,
                  surfaceLoop |-> v.surfaceLoop,
                  vol |-> v.vol]])))))

addCylinderByParameters(D, center, radius, z, height, plane, genLoops, genSurfaces, genVol) ==
    \* the circles
    With(addCircleByParameters(D, center, radius, z, plane), LAMBDA c1 :
    With(addCircleByParameters(c1.d, center, radius, z + height, plane),
         LAMBDA c2 :
    \* the connecting lines
    With(addLine(c2.d, c1.ret[1][2], c2.ret[1][2], None), LAMBDA l1 :
    With(addLine(l1.d, c1.ret[1][3], c2.ret[1][3], None), LAMBDA l2 :
    With(addLine(l2.d, c1.ret[1][4], c2.ret[1][4], None), LAMBDA l3 :
    With(addLine(l3.d, c1.ret[1][5], c2.ret[1][5], None), LAMBDA l4 :
    With([vertices1 |-> c1.ret[1], vertices2 |-> c2.ret[1],
          arcs1 |-> EdgeIds(l4.d, c1.ret[2]), arcs2 |-> EdgeIds(l4.d, c2.ret[2]),
          lines |-> EdgeIds(l4.d, <<l1.ret, l2.ret, l3.ret, l4.ret>>)],
         LAMBDA Id :
    With(IF genLoops
         THEN With(addLineLoop(l4.d, None,
                       <<Id.arcs1[1], Id.arcs1[2], Id.arcs1[3], Id.arcs1[4]>>),
                   LAMBDA p1 :
              With(addLineLoop(p1.d, None,
                       <<Id.arcs2[1], Id.arcs2[2], Id.arcs2[3], Id.arcs2[4]>>),
                   LAMBDA p2 :
              With(addLineLoop(p2.d, None,
                       << -Id.lines[1], Id.arcs1[1], Id.lines[2], -Id.arcs2[1] >>),
                   LAMBDA p3 :
              With(addLineLoop(p3.d, None,
                       << -Id.lines[2], Id.arcs1[2], Id.lines[3], -Id.arcs2[2] >>),
                   LAMBDA p4 :
              With(addLineLoop(p4.d, None,
                       << -Id.lines[3], Id.arcs1[3], Id.lines[4], -Id.arcs2[3] >>),
                   LAMBDA p5 :
              With(addLineLoop(p5.d, None,
                       << -Id.lines[4], Id.arcs1[4], Id.lines[1], -Id.arcs2[4] >>),
                   LAMBDA p6 :
                  [d |-> p6.d,
                   ret |-> <<p1.ret, p2.ret, p3.ret, p4.ret, p5.ret, p6.ret>>]))))))
         ELSE [d |-> l4.d, ret |-> <<>>],
         LAMBDA loops :
    With(IF genSurfaces
         THEN addSurfaces([d |-> loops.d, ret |-> <<>>], loops.ret, 0)
         ELSE [d |-> loops.d, ret |-> <<>>],
         LAMBDA surfaces :
    With(IF genVol
         THEN With(addSurfaceLoop(surfaces.d, None,
                       [k \in 1..Len(surfaces.ret) |->
                           surfaces.d.ruledSurfaces[surfaces.ret[k]].Id]),
                   LAMBDA surfaceLoop :
              With(addVolume(surfaceLoop.d, None,
                             surfaceLoop.d.surfaceLoops[surfaceLoop.ret].Id),
                   LAMBDA vol :
                  [d |-> vol.d, surfaceLoop |-> surfaceLoop.ret, vol |-> vol.ret]))
         ELSE [d |-> surfaces.d, surfaceLoop |-> None, vol |-> None],
         LAMBDA v :
        [d |-> v.d,
         ret |-> [vertices |-> <<c1.ret[1], c2.ret[1]>>,
                  arcs |-> <<c1.ret[2], c2.ret[2]>>,
                  lines |-> <<l1.ret, l2.ret, l3.ret, l4.ret>>,
                  loops |-> loops.ret,
                  surfaces |-> surfaces.ret,
                  surfaceLoop |-> v.surfaceLoop,
                  vol |-> v.vol]]))))))))))

-----------------------------------------------------------------------------
(* Inputs of the calls *)

\* Id arguments: None or an explicit Id
IdOpt == {None} \cup (1..MaxId)

\* IDs asked for in lookups: the explicit Ids and the Ids incrementID hands out
LookupIds == 1..(MaxId + 1)

\* coordinates of the vertices added one by one
Coords == { <<0, 0, 0>> }

\* corner lists of the polygons and prisms
Triangle2D == << <<0, 0>>, <<2, 0>>, <<0, 2>> >>
Square2D == << <<0, 0>>, <<2, 0>>, <<2, 2>>, <<0, 2>> >>
\* the example of the docstring of addPrismByParameters, scaled down
Pentagon2D == << <<5, 5>>, <<0, 2>>, <<0, 0>>, <<1, 1>>, <<2, 0>> >>
\* a pentagon whose sum of (x_i-x_j)*(y_i-y_j) over the sides is 0
PentagonZero2D == << <<0, 0>>, <<2, 0>>, <<3, 1>>, <<2, 2>>, <<0, 2>> >>
\* 2n = 6 three-dimensional corners: a triangle at z=0 and one at z=1
Prism3D == << <<0, 0, 0>>, <<2, 0, 0>>, <<0, 2, 0>>,
              <<0, 0, 1>>, <<2, 0, 1>>, <<0, 2, 1>> >>
\* an odd number of three-dimensional corners
Odd3D == << <<0, 0, 0>>, <<2, 0, 0>>, <<0, 2, 0>> >>

PrismCoords ==
    {Triangle2D, Square2D, Pentagon2D, PentagonZero2D, Prism3D, Odd3D}

\* which fan triangulatePoly returns
Fans == {0, 1}

Planes == {"x", "y", "z"}

-----------------------------------------------------------------------------
(* State: the domain; calls: the number of calls of the seven add-methods   *)
(* so far; op, ret: the last call and what it returned; pre: the domain     *)
(* before it; file: what writeToFile wrote.                                 *)

SetDom(D) ==
    /\ vertices' = D.vertices
    /\ edges' = D.edges
    /\ lines' = D.lines
    /\ arcs' = D.arcs
    /\ loopObjs' = D.loopObjs
    /\ lineLoops' = D.lineLoops
    /\ ruledSurfaces' = D.ruledSurfaces
    /\ surfaceLoops' = D.surfaceLoops
    /\ volumes' = D.volumes

\* a call of a method with result r (fields d and ret)
Call(o, r) ==
    /\ SetDom(r.d)
    /\ op' = o
    /\ pre' = Dom
    /\ ret' = r.ret
    /\ file' = file

Init ==
    /\ vertices = <<>>
    /\ edges = <<>>
    /\ lines = <<>>
    /\ arcs = <<>>
    /\ loopObjs = <<>>
    /\ lineLoops = <<>>
    /\ ruledSurfaces = <<>>
    /\ surfaceLoops = <<>>
    /\ volumes = <<>>
    /\ calls = 0
    /\ op = [name |-> "domain"]
    /\ pre = EmptyDomain
    /\ ret = None
    /\ file = <<>>

AddVertex(x, Id) ==
    /\ calls' = calls + 1
    /\ Call([name |-> "addVertex", Id |-> Id], addVertex(Dom, x, Id))

AddLine(v1, v2, Id) ==
    /\ calls' = calls + 1
    /\ Call([name |-> "addLine", Id |-> Id], addLine(Dom, v1, v2, Id))

AddArc(vstart, vcenter, vend, Id) ==
    /\ calls' = calls + 1
    /\ Call([name |-> "addArc", Id |-> Id],
            addArc(Dom, vstart, vcenter, vend, Id))

AddLineLoop(Id, edgeIDs) ==
    /\ calls' = calls + 1
    /\ Call([name |-> "addLineLoop", Id |-> Id, edgeIDs |-> edgeIDs],
            addLineLoop(Dom, Id, edgeIDs))

AddRuledSurface(Id, lineLoopID, tp) ==
    /\ ~addRuledSurfaceRaises(Dom, lineLoopID)
    /\ calls' = calls + 1
    /\ Call([name |-> "addRuledSurface", Id |-> Id, lineLoopID |-> lineLoopID],
            addRuledSurface(Dom, Id, lineLoopID, tp))

AddSurfaceLoop(Id, surfaceIDs) ==
    /\ calls' = calls + 1
    /\ Call([name |-> "addSurfaceLoop", Id |-> Id, surfaceIDs |-> surfaceIDs],
            addSurfaceLoop(Dom, Id, surfaceIDs))

AddVolume(Id, surfaceLoopID) ==
    /\ calls' = calls + 1
    /\ Call([name |-> "addVolume", Id |-> Id, surfaceLoopID |-> surfaceLoopID],
            addVolume(Dom, Id, surfaceLoopID))

AddPolygonByParameters(coords, z, plane) ==
    /\ calls' = calls
    /\ Call([name |-> "addPolygonByParameters", coords |-> coords, z |-> z,
             plane |-> plane],
            addPolygonByParameters(Dom, coords, z, plane))

\* the calls of add-methods of the specifications, up to n of them and none
\* after a call of a method named in last: explicit or no Id; edges between the first and the last vertex; loops over no edge or
\* over all lines of the domain; surfaces over loops of the domain; surface
\* loops over all surfaces; volumes over the surface loop with ID 1
May(n, last) == calls < n /\ op.name \notin last

Adds(n, last) ==
    \/ \E x \in Coords, Id \in IdOpt : May(n, last) /\ AddVertex(x, Id)
    \/ \E Id \in IdOpt :
           May(n, last) /\ Len(vertices) > 0 /\ AddLine(1, Len(vertices), Id)
    \/ \E Id \in IdOpt :
           May(n, last) /\ Len(vertices) > 0 /\ AddArc(1, 1, Len(vertices), Id)
    \/ \E Id \in IdOpt, edgeIDs \in {<<>>, objAttrToList(LineList(Dom))} :
           May(n, last) /\ AddLineLoop(Id, edgeIDs)
    \/ \E Id \in IdOpt, lineLoopID \in Range(objAttrToList(LoopList(Dom))),
          tp \in Fans :
           May(n, last) /\ AddRuledSurface(Id, lineLoopID, tp)
    \/ \E Id \in IdOpt :
           May(n, last) /\ AddSurfaceLoop(Id, objAttrToList(ruledSurfaces))
    \/ \E Id \in IdOpt : May(n, last) /\ AddVolume(Id, 1)

\* the lists of the domain by name
Elements ==
    {"vertices", "edges", "lineLoops", "ruledSurfaces", "surfaceLoops", "volumes"}

ObjList(D, element) ==
    CASE element = "vertices" -> D.vertices
      [] element = "edges" -> D.edges
      [] element = "lineLoops" -> LoopList(D)
      [] element = "ruledSurfaces" -> D.ruledSurfaces
      [] element = "surfaceLoops" -> D.surfaceLoops
      [] element = "volumes" -> D.volumes

\* the reference to the object at (1-based) position k of a list of the domain
Ref(D, element, k) == IF element = "lineLoops" THEN D.lineLoops[k] ELSE k

\* a lookup in a list of the domain with result r; it assigns nothing
Lookup(element, ID, r) ==
    /\ calls' = calls
    /\ Call([name |-> "getById", element |-> element, ID |-> ID],
            [d |-> Dom, ret |-> r])

GetVertexById(ID) == Lookup("vertices", ID, getVertexById(Dom, ID))
GetEdgeById(ID) == Lookup("edges", ID, getEdgeById(Dom, ID))
GetLineLoopById(ID) == Lookup("lineLoops", ID, getLineLoopById(Dom, ID))
GetRuledSurfaceById(ID) ==
    Lookup("ruledSurfaces", ID, getRuledSurfaceById(Dom, ID))
GetSurfaceLoopById(ID) == Lookup("surfaceLoops", ID, getSurfaceLoopById(Dom, ID))
GetVolumeById(ID) == Lookup("volumes", ID, getVolumeById(Dom, ID))

GetNewId(element, Id) ==
    /\ calls' = calls
    /\ Call([name |-> "getNewId", element |-> element, Id |-> Id],
            [d |-> Dom, ret |-> getNewId(ObjList(Dom, element), Id)])

CheckClosed(l, fix) ==
    /\ ~checkClosedRaises(Dom, l)
    /\ calls' = calls
    /\ Call([name |-> "checkClosed", l |-> l, fix |-> fix],
            checkClosed(Dom, l, fix))

AddPrismByParameters(coords, height, z, genLoops, genSurfaces, genVol, tp) ==
    /\ calls' = calls
    /\ Call([name |-> "addPrismByParameters", coords |-> coords,
             height |-> height, z |-> z, genLoops |-> genLoops,
             genSurfaces |-> genSurfaces, genVol |-> genVol],
            addPrismByParameters(Dom, coords, height, z, genLoops, genSurfaces,
                                 genVol, tp))

AddCylinderByParameters(center, radius, z, height, plane, genLoops, genSurfaces, genVol) ==
    /\ calls' = calls
    /\ Call([name |-> "addCylinderByParameters", plane |-> plane,
             genLoops |-> genLoops, genSurfaces |-> genSurfaces,
             genVol |-> genVol],
            addCylinderByParameters(Dom, center, radius, z, height, plane,
                                    genLoops, genSurfaces, genVol))

\* a pentagon as the first call
AddPentagon ==
    \E coords \in {Pentagon2D, PentagonZero2D} :
        /\ op.name = "domain"
        /\ AddPolygonByParameters(coords, 0, "z")

Next ==
    \/ Adds(MaxCalls, {})
    \/ AddPentagon

Spec == Init /\ [][Next]_vars

\* SpecIds: up to MaxPriorCalls calls of add-methods, and lookups and calls of
\* getNewId in between
NextIds ==
    \/ Adds(MaxPriorCalls, {})
    \/ AddPentagon
    \/ \E ID \in LookupIds : GetVertexById(ID)
    \/ \E ID \in LookupIds : GetEdgeById(ID)
    \/ \E ID \in LookupIds : GetLineLoopById(ID)
    \/ \E ID \in LookupIds : GetRuledSurfaceById(ID)
    \/ \E ID \in LookupIds : GetSurfaceLoopById(ID)
    \/ \E ID \in LookupIds : GetVolumeById(ID)
    \/ \E element \in Elements, Id \in {None} \cup LookupIds :
           GetNewId(element, Id)

SpecIds == Init /\ [][NextIds]_vars

\* the methods that add a whole shape
ShapeNames ==
    {"addPolygonByParameters", "addPrismByParameters", "addCylinderByParameters"}

\* SpecShapes: up to MaxPriorCalls calls of add-methods and then one shape
NextShapes ==
    \/ Adds(MaxPriorCalls, ShapeNames)
    \/ \E coords \in {Triangle2D, Pentagon2D, Prism3D}, plane \in Planes :
           /\ op.name \notin ShapeNames
           /\ AddPolygonByParameters(coords, 1, plane)
    \/ \E coords \in PrismCoords, genLoops, genSurfaces, genVol \in BOOLEAN,
          tp \in Fans :
           /\ op.name \notin ShapeNames
           /\ AddPrismByParameters(coords, 1, 0, genLoops, genSurfaces, genVol, tp)
    \/ \E plane \in Planes, genLoops, genSurfaces, genVol \in BOOLEAN :
           /\ op.name \notin ShapeNames
           /\ AddCylinderByParameters(<<0, 0>>, 1, 0, 1, plane, genLoops,
                                      genSurfaces, genVol)

SpecShapes == Init /\ [][NextShapes]_vars

\* the lists of signed Ids of edges of the domain, up to MaxLoopLen long
SignedIds == UNION {{edges[i].Id, -edges[i].Id} : i \in 1..Len(edges)}
SignedIdLists == UNION {[1..n -> SignedIds] : n \in 0..MaxLoopLen}

\* SpecLoop: a triangle, one line loop over its lines in any order and
\* orientation, and calls of checkClosed on the loop
NextLoop ==
    \/ /\ op.name = "domain"
       /\ AddPolygonByParameters(Triangle2D, 0, "z")
    \/ \E edgeIDs \in SignedIdLists :
           /\ Len(edges) > 0
           /\ Len(loopObjs) = 0
           /\ AddLineLoop(None, edgeIDs)
    \/ \E l \in 1..Len(loopObjs), fix \in BOOLEAN : CheckClosed(l, fix)

SpecLoop == Init /\ [][NextLoop]_vars

\* domain.writeToFile(fn): the domain is left alone, the file is written anew
WriteToFile ==
    /\ ~writeToFileRaises(Dom)
    /\ file' = writeToFile(Dom)
    /\ op' = [name |-> "writeToFile"]
    /\ pre' = Dom
    /\ ret' = None
    /\ UNCHANGED <<domVars, calls>>

\* SpecWrite: a pentagon or not, calls of the add-methods, then one call of
\* writeToFile
NextWrite ==
    \/ Adds(MaxPriorCalls, {"writeToFile"})
    \/ AddPentagon
    \/ op.name # "writeToFile" /\ WriteToFile

SpecWrite == Init /\ [][NextWrite]_vars

AddEdgeByID(l, ID) ==
    /\ calls' = calls + 1
    /\ Call([name |-> "addEdgeByID", l |-> l, ID |-> ID], addEdgeByID(Dom, l, ID))

InsertEdgeByID(l, ID, pos) ==
    /\ calls' = calls + 1
    /\ Call([name |-> "insertEdgeByID", l |-> l, ID |-> ID, pos |-> pos],
            insertEdgeByID(Dom, l, ID, pos))

RemoveEdgeByID(l, ID) ==
    /\ calls' = calls + 1
    /\ Call([name |-> "removeEdgeByID", l |-> l, ID |-> ID],
            removeEdgeByID(Dom, l, ID))

ReverseEdge(l, ID) ==
    /\ calls' = calls + 1
    /\ Call([name |-> "reverseEdge", l |-> l, ID |-> ID],
            lineLoopReverseEdge(Dom, l, ID))

\* the lists of signed Ids a loop is made from before it is edited, and the
\* positions of an insertion: inside the list, before its start and behind
\* its end
ShortIdLists == {IDs \in SignedIdLists : Len(IDs) < MaxLoopLen}
InsertPositions == (0 - 1)..(MaxLoopLen + 1)

\* SpecEdit: a triangle, one line loop over signed Ids of its lines, and up
\* to MaxEdits calls of the methods that edit the loop
NextEdit ==
    \/ /\ op.name = "domain"
       /\ AddPolygonByParameters(Triangle2D, 0, "z")
    \/ \E edgeIDs \in ShortIdLists :
           /\ Len(edges) > 0
           /\ Len(loopObjs) = 0
           /\ AddLineLoop(None, edgeIDs)
    \/ \E l \in 1..Len(loopObjs), ID \in SignedIds :
           calls <= MaxEdits /\ AddEdgeByID(l, ID)
    \/ \E l \in 1..Len(loopObjs), ID \in SignedIds, pos \in InsertPositions :
           calls <= MaxEdits /\ InsertEdgeByID(l, ID, pos)
    \/ \E l \in 1..Len(loopObjs), ID \in SignedIds :
           calls <= MaxEdits /\ RemoveEdgeByID(l, ID)
    \/ \E l \in 1..Len(loopObjs), ID \in SignedIds :
           calls <= MaxEdits /\ ReverseEdge(l, ID)

SpecEdit == Init /\ [][NextEdit]_vars

GetAllMaxID ==
    /\ calls' = calls
    /\ Call([name |-> "getAllMaxID"], [d |-> Dom, ret |-> getAllMaxID(Dom)])

\* SpecMax: calls of the add-methods, a cylinder or not, and then one call of
\* getAllMaxID
NextMax ==
    \/ Adds(MaxPriorCalls, {"addCylinderByParameters", "getAllMaxID"})
    \/ \E genLoops, genSurfaces, genVol \in BOOLEAN :
           /\ op.name \notin {"addCylinderByParameters", "getAllMaxID"}
           /\ AddCylinderByParameters(<<0, 0>>, 1, 0, 1, "z", genLoops,
                                      genSurfaces, genVol)
    \/ op.name # "getAllMaxID" /\ GetAllMaxID

SpecMax == Init /\ [][NextMax]_vars

-----------------------------------------------------------------------------
(* Uniqueness of the Ids *)

\* no two objects of the list have the same Id
UniqueIds(objList) ==
    \A i, j \in 1..Len(objList) : i # j => objList[i].Id # objList[j].Id

\* C1: after any sequence of calls of addVertex, addLine, addArc, addLineLoop,
\* addRuledSurface, addSurfaceLoop and addVolume, with or without an explicit
\* Id and with Ids that are in use, no two vertices, no two edges, no two line
\* loops, no two ruled surfaces (the pieces of a triangulation included), no
\* two surface loops and no two volumes of the domain have the same Id
C1_UniqueIds ==
    /\ UniqueIds(vertices)
    /\ UniqueIds(edges)
    /\ UniqueIds(LoopList(Dom))
    /\ UniqueIds(ruledSurfaces)
    /\ UniqueIds(surfaceLoops)
    /\ UniqueIds(volumes)

\* addRuledSurface was called with an Id that a surface of the domain had, and
\* the call triangulated its loop: more than one surface was added
C1_Witness ==
    /\ op.name = "addRuledSurface"
    /\ op.Id # None
    /\ checkIdExists(op.Id, pre.ruledSurfaces)
    /\ Len(ruledSurfaces) > Len(pre.ruledSurfaces) + 1

-----------------------------------------------------------------------------
(* Lookups and new Ids *)

\* the Ids of a list of objects, as a set
IdsOf(objList) == {objList[i].Id : i \in 1..Len(objList)}

\* C5: a lookup get...ById(ID) returns (False,False) if no object of the list
\* has the ID; otherwise it returns (e,i) where e is the object at position i
\* of the list, e.Id = ID and no object before position i has the ID; the
\* lookup does not change the domain
C5_Lookup ==
    op.name = "getById" =>
        LET objList == ObjList(Dom, op.element)
        IN  /\ Dom = pre
            /\ IF op.ID \notin IdsOf(objList)
               THEN ret = <<False, False>>
               ELSE /\ ret[2] \in 0..(Len(objList) - 1)
                    /\ ret[1] = Ref(Dom, op.element, ret[2] + 1)
                    /\ objList[ret[2] + 1].Id = op.ID
                    /\ \A j \in 1..ret[2] : objList[j].Id # op.ID

\* a lookup found its object behind another one
C5_Witness ==
    /\ op.name = "getById"
    /\ ret # <<False, False>>
    /\ ret[2] > 0

\* C6: getNewId returns an ID no object of the list has: the requested Id if
\* one is given and no object has it, otherwise 1 for an empty list and the
\* largest Id of the list plus one for any other
C6_NewId ==
    op.name = "getNewId" =>
        LET ids == IdsOf(ObjList(Dom, op.element))
        IN  /\ ret \notin ids
            /\ IF op.Id # None /\ op.Id \notin ids THEN ret = op.Id
               ELSE IF ids = {} THEN ret = 1
               ELSE (ret - 1) \in ids /\ \A y \in ids : y < ret

\* getNewId was asked for an Id in use, in a list whose largest Id is not its
\* length
C6_Witness ==
    /\ op.name = "getNewId"
    /\ op.Id \in IdsOf(ObjList(Dom, op.element))
    /\ ret # Len(ObjList(Dom, op.element)) + 1

-----------------------------------------------------------------------------
(* Closed loops *)

\* the loop object l is closed head-to-tail: the last vertex of every edge, in
\* its orientation, is the first vertex of the next edge, cyclically
IsClosed(D, l) ==
    LET es == D.loopObjs[l].edges
        o == D.loopObjs[l].orientations
    IN  \A i \in 1..Len(es) :
            getLastVertex(D, es[i], o[i])
                = getFirstVertex(D, es[(i % Len(es)) + 1], o[(i % Len(es)) + 1])

\* consecutive edges of the loop object l share an endpoint, cyclically
SharesEndpoints(D, l) ==
    LET es == D.loopObjs[l].edges
        ends(e) == {getFirstVertex(D, e, 1), getLastVertex(D, e, 1)}
    IN  \A i \in 1..Len(es) : ends(es[i]) \cap ends(es[(i % Len(es)) + 1]) # {}

\* C2: every line loop that addCylinderByParameters, or addPrismByParameters
\* with two-dimensional corners, creates with genLoops=True is closed
\* head-to-tail
C2_ShapeLoopsClosed ==
    (/\ op.name \in {"addCylinderByParameters", "addPrismByParameters"}
     /\ op.genLoops
     /\ op.name = "addPrismByParameters" => Len(op.coords[1]) = 2)
        => \A k \in 1..Len(ret.loops) : IsClosed(Dom, ret.loops[k])

\* a prism over a pentagon whose polygon loops were triangulated
C2_Witness ==
    /\ op.name = "addPrismByParameters"
    /\ op.genLoops
    /\ ~ret.none
    /\ Len(ret.loops) = 7
    /\ Len(lineLoops) > Len(pre.lineLoops) + 7

\* C3: checkClosed(fix=False) returns True exactly when the loop is closed
\* head-to-tail, and False for every loop that is not
C3_CheckClosed ==
    (op.name = "checkClosed" /\ ~op.fix) => (ret <=> IsClosed(pre, op.l))

\* C4: for a loop whose consecutive edges share an endpoint, after
\* checkClosed(fix=True) has returned True the loop is closed, and a
\* checkClosed(fix=False) that follows immediately returns True
C4_FixCloses ==
    (/\ op.name = "checkClosed"
     /\ op.fix
     /\ ret
     /\ SharesEndpoints(pre, op.l))
        => /\ IsClosed(Dom, op.l)
           /\ checkClosed(Dom, op.l, FALSE).ret

-----------------------------------------------------------------------------
(* Shapes *)

\* list s is list t with k more elements at its end
Grown(s, t, k) == Len(s) = Len(t) + k /\ SubSeq(s, 1, Len(t)) = t

\* C7: addPolygonByParameters with n coordinates appends exactly n vertices, in
\* the order of the coordinates, and exactly n lines: line i runs from new
\* vertex i to new vertex (i+1) mod n
C7_Polygon ==
    op.name = "addPolygonByParameters" =>
        LET n == Len(op.coords)
            nv == Len(pre.vertices)
            ne == Len(pre.edges)
            x(i) == IF Len(op.coords[i]) = 3 THEN op.coords[i]
                    ELSE <<op.coords[i][1], op.coords[i][2], op.z>>
        IN  /\ Grown(vertices, pre.vertices, n)
            /\ Grown(edges, pre.edges, n)
            /\ Grown(lines, pre.lines, n)
            /\ arcs = pre.arcs
            /\ \A i \in 1..n :
                   /\ vertices[nv + i].x = flipCoordinate(x(i), op.plane, "z")
                   /\ lines[Len(pre.lines) + i] = ne + i
                   /\ edges[ne + i].typ = 0
                   /\ edges[ne + i].v1 = nv + i
                   /\ edges[ne + i].v2 = nv + (i % n) + 1

\* a pentagon was added to a domain that had vertices and edges
C7_Witness ==
    /\ op.name = "addPolygonByParameters"
    /\ Len(op.coords) = 5
    /\ Len(pre.vertices) > 0
    /\ Len(pre.edges) > 0

\* C8: addPrismByParameters with n >= 3 two-dimensional corners and genLoops,
\* genSurfaces and genVol all true adds exactly n+2 line loops, n+2 ruled
\* surfaces, one surface loop and one volume
C8_PrismCounts ==
    (/\ op.name = "addPrismByParameters"
     /\ Len(op.coords[1]) = 2
     /\ op.genLoops /\ op.genSurfaces /\ op.genVol)
        => /\ Len(lineLoops) = Len(pre.lineLoops) + Len(op.coords) + 2
           /\ Len(ruledSurfaces) = Len(pre.ruledSurfaces) + Len(op.coords) + 2
           /\ Len(surfaceLoops) = Len(pre.surfaceLoops) + 1
           /\ Len(volumes) = Len(pre.volumes) + 1

\* the lines with references ls are a closed chain over the vertices vs, in order
ClosedChain(D, ls, vs) ==
    /\ Len(ls) = Len(vs)
    /\ \A i \in 1..Len(ls) :
           /\ D.edges[ls[i]].v1 = vs[i]
           /\ D.edges[ls[i]].v2 = vs[(i % Len(vs)) + 1]

\* C9: given 2n three-dimensional coordinates, addPrismByParameters creates two
\* polygons of n corners: the first n polygon lines are a closed chain over the
\* first n vertices only, the last n a closed chain over the last n vertices
C9_Prism3D ==
    (/\ op.name = "addPrismByParameters"
     /\ Len(op.coords[1]) = 3
     /\ Len(op.coords) % 2 = 0)
        => /\ Len(ret.vertices[1]) = Len(op.coords) \div 2
           /\ Len(ret.vertices[2]) = Len(op.coords) \div 2
           /\ ClosedChain(Dom, ret.lines[1], ret.vertices[1])
           /\ ClosedChain(Dom, ret.lines[2], ret.vertices[2])

\* C10: addCylinderByParameters with genLoops, genSurfaces and genVol all true
\* adds exactly 10 vertices, 8 arcs, 4 lines, 6 line loops, 6 ruled surfaces,
\* 1 surface loop and 1 volume, and the new surface loop consists of exactly
\* the 6 ruled surfaces of this call, whatever the domain held before
C10_Cylinder ==
    (/\ op.name = "addCylinderByParameters"
     /\ op.genLoops /\ op.genSurfaces /\ op.genVol)
        => /\ Grown(vertices, pre.vertices, 10)
           /\ Grown(arcs, pre.arcs, 8)
           /\ Grown(lines, pre.lines, 4)
           /\ Grown(edges, pre.edges, 12)
           /\ Grown(lineLoops, pre.lineLoops, 6)
           /\ Grown(ruledSurfaces, pre.ruledSurfaces, 6)
           /\ Grown(surfaceLoops, pre.surfaceLoops, 1)
           /\ Grown(volumes, pre.volumes, 1)
           /\ Range(surfaceLoops[Len(surfaceLoops)].surfaces)
                  = (Len(pre.ruledSurfaces) + 1)..(Len(pre.ruledSurfaces) + 6)
           /\ Len(surfaceLoops[Len(surfaceLoops)].surfaces) = 6

\* a cylinder with loops, surfaces and volume was added to a domain that had a
\* ruled surface
C10_Witness ==
    /\ op.name = "addCylinderByParameters"
    /\ op.genLoops /\ op.genSurfaces /\ op.genVol
    /\ Len(pre.ruledSurfaces) > 0


-----------------------------------------------------------------------------
(* Triangulation of the loop of a ruled surface *)

\* the loop l of domain D lies in a plane x=c, y=c or z=c
InAxisPlane(D, l) ==
    \E k \in 1..3 : \A i, j \in Range(getVertices(D, l)) :
        D.vertices[i].x[k] = D.vertices[j].x[k]

\* every ruled surface of the domain is bounded by a loop of at most 4 edges
\* that is an element of lineLoops
SurfacesBounded ==
    \A s \in 1..Len(ruledSurfaces) :
        /\ Len(loopObjs[ruledSurfaces[s].lineLoop].edges) <= 4
        /\ ruledSurfaces[s].lineLoop \in Range(lineLoops)

\* C11: after addRuledSurface over a loop with more than 4 edges that lies in
\* a plane (here: a plane normal to an axis), the loop is no longer in
\* lineLoops and every ruled surface of the domain is bounded by a loop of at
\* most 4 edges that is in lineLoops; over a loop with at most 4 edges the call
\* adds no edge, no line loop and exactly the one surface
C11_Triangulated ==
    op.name = "addRuledSurface" =>
        LET l == getLineLoopById(pre, op.lineLoopID)[1]
        IN  IF Len(pre.loopObjs[l].edges) > 4
            THEN InAxisPlane(pre, l) =>
                     /\ l \notin Range(lineLoops)
                     /\ SurfacesBounded
            ELSE /\ edges = pre.edges
                 /\ loopObjs = pre.loopObjs
                 /\ lineLoops = pre.lineLoops
                 /\ Len(ruledSurfaces) = Len(pre.ruledSurfaces) + 1


-----------------------------------------------------------------------------
(* The statements of the file *)

\* token i of the text stands in a comment: from "//" to the end of the line
InComment(f, i) ==
    \E j \in 1..i : /\ f[j] = Txt("//")
                    /\ \A m \in (j + 1)..(i - 1) : f[m] # Txt("\n")

\* the positions 1..n that pass the test, in their order
Positions(n, Test(_)) == SelectSeq([i \in 1..n |-> i], Test)

\* the tokens of the text without comments and without line ends
Uncommented(f) ==
    With(Positions(Len(f), LAMBDA i : ~InComment(f, i) /\ f[i] # Txt("\n")),
         LAMBDA keep : [k \in 1..Len(keep) |-> f[keep[k]]])

\* the statements of a sequence of tokens: what stands before each "};\n",
\* and what is left after the last one, if anything
Split(t) ==
    With(Positions(Len(t) + 1,
                   LAMBDA i : IF i <= Len(t) THEN t[i] = Txt("};\n")
                              ELSE t # <<>> /\ t[Len(t)] # Txt("};\n")),
         LAMBDA ends :
             [k \in 1..Len(ends) |->
                 SubSeq(t, IF k = 1 THEN 1 ELSE ends[k - 1] + 1, ends[k] - 1)])

Statements(f) == Split(Uncommented(f))

\* the kinds of statement, and the kinds of entity each one refers to
Kinds ==
    {"Point(", "Line(", "Circle(", "Line Loop(", "Ruled Surface(",
     "Surface Loop(", "Volume("}

RefKinds(kind) ==
    CASE kind = "Point(" -> {}
      [] kind \in {"Line(", "Circle("} -> {"Point("}
      [] kind = "Line Loop(" -> {"Line(", "Circle("}
      [] kind = "Ruled Surface(" -> {"Line Loop("}
      [] kind = "Surface Loop(" -> {"Ruled Surface("}
      [] kind = "Volume(" -> {"Surface Loop("}

\* a statement "Kind(Id)= {a,b,...": a kind, a number, and arguments
\* separated by commas
WellFormed(st) ==
    /\ Len(st) >= 4
    /\ Len(st) % 2 = 0
    /\ st[1].s \in Kinds
    /\ st[2].s = ""
    /\ st[3] = Txt(")= {")
    /\ \A i \in 4..Len(st) :
           IF i % 2 = 0 THEN st[i].s \in {"", "None"} ELSE st[i] = Txt(",")

\* the entities of the domain in the order vertices, lines, arcs, line loops,
\* ruled surfaces, surface loops, volumes and in list order within each
Entities(D) ==
    [k \in 1..Len(D.vertices) |-> [kind |-> "Point(", Id |-> D.vertices[k].Id]]
    \o [k \in 1..Len(D.lines) |-> [kind |-> "Line(", Id |-> D.edges[D.lines[k]].Id]]
    \o [k \in 1..Len(D.arcs) |-> [kind |-> "Circle(", Id |-> D.edges[D.arcs[k]].Id]]
    \o [k \in 1..Len(D.lineLoops) |->
           [kind |-> "Line Loop(", Id |-> D.loopObjs[D.lineLoops[k]].Id]]
    \o [k \in 1..Len(D.ruledSurfaces) |->
           [kind |-> "Ruled Surface(", Id |-> D.ruledSurfaces[k].Id]]
    \o [k \in 1..Len(D.surfaceLoops) |->
           [kind |-> "Surface Loop(", Id |-> D.surfaceLoops[k].Id]]
    \o [k \in 1..Len(D.volumes) |-> [kind |-> "Volume(", Id |-> D.volumes[k].Id]]

\* statement k of S is the statement of entity e, and every entity it refers
\* to is defined by an earlier statement of S
StatementOf(S, k, e) ==
    /\ WellFormed(S[k])
    /\ S[k][1].s = e.kind
    /\ S[k][2].n = e.Id
    /\ e.kind # "Point(" =>
           \A i \in 4..Len(S[k]) :
               i % 2 = 0 =>
                   \E j \in 1..(k - 1) :
                       /\ WellFormed(S[j])
                       /\ S[j][1].s \in RefKinds(e.kind)
                       /\ S[j][2].n = abs(S[k][i].n)

\* C12: the file written by writeToFile for a domain built through the
\* add-methods, all references of which exist, holds exactly one statement
\* per entity, in the order vertices, lines, arcs, line loops, ruled surfaces,
\* surface loops, volumes and in list order within each group, and every
\* entity a statement refers to is defined by an earlier statement
C12_Statements ==
    op.name = "writeToFile" =>
        /\ Len(Statements(file)) = Len(Entities(Dom))
        /\ \A k \in 1..Len(Entities(Dom)) :
               StatementOf(Statements(file), k, Entities(Dom)[k])


-----------------------------------------------------------------------------
(* Editing a line loop *)

\* C13: for every line loop, after its construction from a list of signed Ids
\* of edges of the domain and after any calls of addEdgeByID, insertEdgeByID
\* and reverseEdge (and removeEdgeByID), edges and orientations have the same
\* length and every orientation is 1 or -1
C13_LoopLists ==
    \A l \in 1..Len(loopObjs) :
        /\ Len(loopObjs[l].edges) = Len(loopObjs[l].orientations)
        /\ \A i \in 1..Len(loopObjs[l].orientations) :
               loopObjs[l].orientations[i] \in {1, 0 - 1}

\* an edge was inserted under a negative Id at a position inside the loop,
\* after another edit
C13_Witness ==
    /\ op.name = "insertEdgeByID"
    /\ op.ID < 0
    /\ op.pos > 0
    /\ op.pos < Len(pre.loopObjs[op.l].edges)
    /\ calls > MaxEdits

\* C14: removeEdgeByID(ID) with the Id of an edge of the loop does not raise
\* and takes one entry, that edge, out of edges and the entry at the same
\* position out of orientations; the other entries stay, in their order
C14_RemoveEdge ==
    (/\ op.name = "removeEdgeByID"
     /\ \E k \in 1..Len(pre.loopObjs[op.l].edges) :
            pre.edges[pre.loopObjs[op.l].edges[k]].Id = abs(op.ID))
    => /\ ~ret.raised
       /\ \E k \in 1..Len(pre.loopObjs[op.l].edges) :
              /\ pre.edges[pre.loopObjs[op.l].edges[k]].Id = abs(op.ID)
              /\ loopObjs[op.l].edges = pop(pre.loopObjs[op.l].edges, k)
              /\ loopObjs[op.l].orientations =
                     pop(pre.loopObjs[op.l].orientations, k)


-----------------------------------------------------------------------------
(* The largest ID *)

\* the IDs of all entities of the domain
AllIds(D) ==
    UNION {IdsOf(ElementObjects(D, AllElements[i])) : i \in 1..Len(AllElements)}

\* C15: in every domain that holds at least one entity, getAllMaxID returns
\* (it does not raise) the largest ID among all vertices, lines, arcs, line
\* loops, ruled surfaces, surface loops and volumes
C15_AllMaxID ==
    (op.name = "getAllMaxID" /\ AllIds(Dom) # {}) =>
        /\ ~ret.raised
        /\ ret.value \in AllIds(Dom)
        /\ \A id \in AllIds(Dom) : id <= ret.value

=============================================================================
